---------------------------- MODULE Spec2Model ----------------------------
(***************************************************************************)
(* A model of the C/C++ identifier obfuscator: utils/obfuscator.py (the    *)
(* core engine) and obfuscate_cpp.py (the command-line run).               *)
(*                                                                         *)
(* A text is a sequence of one-character strings.  Positions are 0-based   *)
(* as in Python; At(code, p) reads the character at position p.  A regex   *)
(* match is a pair <<start, end>> (half-open), a list of matches is what   *)
(* finditer yields, left to right and non-overlapping.  The model covers   *)
(* ASCII text.                                                             *)
(***************************************************************************)
EXTENDS Integers, Sequences, FiniteSets, TLC

VARIABLES
    pc,           \* the step the pipeline / the run is at
    text,         \* core pipeline: the raw text of the file
    keep_list,    \* caller-supplied keep-list entries (set of strings)
    start_index,  \* build_replacement_map's start_index
    no_comments,  \* core pipeline: remove_comments(text)
    id_list,      \* candidate list (sequence of names)
    mapping,      \* OrderedDict original -> generated: sequence of pairs
    obf_text,     \* core pipeline: replace_identifiers(no_comments, ...)
    map_file,     \* content of the map file: sequence of lines (strings)
    in_texts,     \* run: the raw text of each input file, traversal order
    cursor,       \* run: number of files the current loop has handled
    outputs,      \* run: the output written for each file so far
    dry_run       \* run: --dry-run

vars == <<pc, text, keep_list, start_index, no_comments, id_list, mapping,
          obf_text, map_file, in_texts, cursor, outputs, dry_run>>

-----------------------------------------------------------------------------
(* Characters and strings *)

Lower == {"a","b","c","d","e","f","g","h","i","j","k","l","m",
          "n","o","p","q","r","s","t","u","v","w","x","y","z"}
Upper == {"A","B","C","D","E","F","G","H","I","J","K","L","M",
          "N","O","P","Q","R","S","T","U","V","W","X","Y","Z"}
Digit == {"0","1","2","3","4","5","6","7","8","9"}

\* [A-Za-z_]
IdentStartChar == Lower \cup Upper \cup {"_"}
\* [A-Za-z0-9_], which is also \w on ASCII text
WordChar == IdentStartChar \cup Digit

isalnum(c) == c \in Lower \cup Upper \cup Digit
isspace(c) == c \in {" ", "\t", "\n", "\r", "\f"}

At(code, p) == code[p + 1]

\* code[a:b] with 0 <= a, clipped at the end of the text as Python slices are
Slice(code, a, b) == SubSeq(code, a + 1, IF b < Len(code) THEN b ELSE Len(code))

\* the Python str of a sequence of characters
RECURSIVE JoinChars(_)
JoinChars(s) == IF s = <<>> THEN "" ELSE Head(s) \o JoinChars(Tail(s))

Spaces(n) == [i \in 1..n |-> " "]

-----------------------------------------------------------------------------
(* The vocabularies *)

CPP_KEYWORDS == {
    "alignas", "alignof", "and", "and_eq", "asm", "auto", "bitand", "bitor", "bool", "break",
    "case", "catch", "char", "char16_t", "char32_t", "class", "compl", "const", "constexpr",
    "const_cast", "continue", "decltype", "default", "delete", "do", "double", "dynamic_cast",
    "else", "enum", "explicit", "export", "extern", "false", "float", "for", "friend", "goto",
    "if", "inline", "int", "long", "mutable", "namespace", "new", "noexcept", "not", "not_eq",
    "nullptr", "operator", "or", "or_eq", "private", "protected", "public", "register",
    "reinterpret_cast", "return", "short", "signed", "sizeof", "static", "static_assert",
    "static_cast", "struct", "switch", "template", "this", "thread_local", "throw", "true",
    "try", "typedef", "typeid", "typename", "union", "unsigned", "using", "virtual", "void",
    "volatile", "wchar_t", "while", "xor", "xor_eq", "override", "final", "import", "module" }

STD_COMMON == {
    "std", "size_t", "string", "vector", "map", "unordered_map", "list", "shared_ptr",
    "unique_ptr", "make_shared", "make_unique", "cout", "cin", "cerr", "printf", "scanf",
    "malloc", "free", "nullptr" }

-----------------------------------------------------------------------------
(* The regular expressions, as the matches finditer yields *)

\* [A-Za-z0-9_]* : the end of the run of word characters that covers p
RECURSIVE WordEnd(_, _)
WordEnd(code, p) ==
    IF p < Len(code) /\ At(code, p) \in WordChar THEN WordEnd(code, p + 1) ELSE p

\* IDENT_RE = \b[A-Za-z_][A-Za-z0-9_]*\b
RECURSIVE IDENT_RE(_, _)
IDENT_RE(code, p) ==
    IF p >= Len(code) THEN <<>>
    ELSE IF /\ At(code, p) \in IdentStartChar
            /\ (p = 0 \/ At(code, p - 1) \notin WordChar)
         THEN LET e == WordEnd(code, p) IN <<<<p, e>>>> \o IDENT_RE(code, e)
         ELSE IDENT_RE(code, p + 1)

\* ([^q\\]|\\.)*q after an opening quote q: the end of the literal, -1 if the
\* literal is not closed (DOTALL: a backslash escapes a newline too)
RECURSIVE LiteralEnd(_, _, _)
LiteralEnd(code, j, q) ==
    IF j >= Len(code) THEN -1
    ELSE IF At(code, j) = q THEN j + 1
    ELSE IF At(code, j) = "\\"
         THEN IF j + 1 < Len(code) THEN LiteralEnd(code, j + 2, q) ELSE -1
         ELSE LiteralEnd(code, j + 1, q)

\* STRING_OR_CHAR = ("([^"\\]|\\.)*")|('([^'\\]|\\.)*')
RECURSIVE STRING_OR_CHAR(_, _)
STRING_OR_CHAR(code, p) ==
    IF p >= Len(code) THEN <<>>
    ELSE IF At(code, p) \in {"\"", "'"}
         THEN LET e == LiteralEnd(code, p + 1, At(code, p))
              IN  IF e >= 0 THEN <<<<p, e>>>> \o STRING_OR_CHAR(code, e)
                  ELSE STRING_OR_CHAR(code, p + 1)
         ELSE STRING_OR_CHAR(code, p + 1)

\* .*?\*/ (DOTALL) from position j: the end of the first */ at or after j,
\* -1 if there is none
RECURSIVE BlockEnd(_, _)
BlockEnd(code, j) ==
    IF j + 1 >= Len(code) THEN -1
    ELSE IF At(code, j) = "*" /\ At(code, j + 1) = "/" THEN j + 2
    ELSE BlockEnd(code, j + 1)

\* C_COMMENT = /\*.*?\*/ (DOTALL)
RECURSIVE C_COMMENT(_, _)
C_COMMENT(code, p) ==
    IF p + 1 >= Len(code) THEN <<>>
    ELSE IF At(code, p) = "/" /\ At(code, p + 1) = "*"
         THEN LET e == BlockEnd(code, p + 2)
              IN  IF e >= 0 THEN <<<<p, e>>>> \o C_COMMENT(code, e)
                  ELSE C_COMMENT(code, p + 1)
         ELSE C_COMMENT(code, p + 1)

\* .*?(?=\n|$) from position j: . does not match a newline
RECURSIVE LineEnd(_, _)
LineEnd(code, j) ==
    IF j < Len(code) /\ At(code, j) # "\n" THEN LineEnd(code, j + 1) ELSE j

\* CPP_COMMENT = //.*?(?=\n|$)
RECURSIVE CPP_COMMENT(_, _)
CPP_COMMENT(code, p) ==
    IF p + 1 >= Len(code) THEN <<>>
    ELSE IF At(code, p) = "/" /\ At(code, p + 1) = "/"
         THEN LET e == LineEnd(code, p + 2) IN <<<<p, e>>>> \o CPP_COMMENT(code, e)
         ELSE CPP_COMMENT(code, p + 1)

\* pattern.sub(repl, code): the text between the matches is copied, match k
\* is replaced by reps[k]; p is the position the copy has reached
RECURSIVE re_sub(_, _, _, _)
re_sub(code, ms, reps, p) ==
    IF ms = <<>> THEN Slice(code, p, Len(code))
    ELSE Slice(code, p, ms[1][1]) \o reps[1]
             \o re_sub(code, Tail(ms), Tail(reps), ms[1][2])

-----------------------------------------------------------------------------
(* utils/obfuscator.py *)

\* lambda m: ' ' * (m.end() - m.start()), for every match of ms
blank(ms) == [k \in 1..Len(ms) |-> Spaces(ms[k][2] - ms[k][1])]

remove_comments(code) ==
    LET ms1 == C_COMMENT(code, 0)
        c1  == re_sub(code, ms1, blank(ms1), 0)
        ms2 == CPP_COMMENT(c1, 0)
    IN  re_sub(c1, ms2, blank(ms2), 0)

find_string_spans(code) == STRING_OR_CHAR(code, 0)

is_in_spans_first_only(pos, spans) ==
    spans # <<>> /\ spans[1][1] <= pos /\ pos < spans[1][2]
is_in_spans(pos, spans) ==
    \E k \in 1..Len(spans) : spans[k][1] <= pos /\ pos < spans[k][2]

isdigit(name) == name # <<>> /\ \A i \in 1..Len(name) : name[i] \in Digit
startswith(name, prefix) ==
    Len(name) >= Len(prefix) /\ SubSeq(name, 1, Len(prefix)) = prefix

\* if name not in identifiers: identifiers[name] = None
ordered_add_again(identifiers, name) == Append(identifiers, name)
ordered_add(identifiers, name) ==
    IF \E k \in 1..Len(identifiers) : identifiers[k] = name
    THEN identifiers ELSE Append(identifiers, name)

\* the body of the for loop of gather_identifiers over the matches ms;
\* identifiers is the list of keys of the OrderedDict
RECURSIVE gather_loop(_, _, _, _, _)
gather_loop(code, spans, keep_set, ms, identifiers) ==
    IF ms = <<>> THEN identifiers
    ELSE LET name  == Slice(code, ms[1][1], ms[1][2])
             start == ms[1][1]
             skip  == \/ is_in_spans(start, spans)
                      \/ JoinChars(name) \in CPP_KEYWORDS \/ isdigit(name)
                      \/ JoinChars(name) \in keep_set
                      \/ name = <<"m", "a", "i", "n">>
                      \/ startswith(name, <<"_", "_">>)
         IN  gather_loop(code, spans, keep_set, Tail(ms),
                         IF skip THEN identifiers
                         ELSE ordered_add(identifiers, name))

gather_identifiers(code, keep_set) ==
    gather_loop(code, find_string_spans(code), keep_set, IDENT_RE(code, 0), <<>>)

\* format(n, 'b') for n >= 0
RECURSIVE format_b(_)
format_b(n) ==
    IF n < 2 THEN << IF n = 0 THEN "0" ELSE "1" >>
    ELSE Append(format_b(n \div 2), IF n % 2 = 0 THEN "0" ELSE "1")

gen_obf_name_no_offset(index) ==
    LET base == format_b(index)
    IN  IF index % 2 = 0 THEN <<"O">> \o base ELSE <<"l">> \o base
gen_obf_name(index) ==
    LET base == format_b(index + 256)
    IN  IF index % 2 = 0 THEN <<"O">> \o base ELSE <<"l">> \o base

\* an OrderedDict is the sequence of its <<key, value>> items
dict_has(d, key) == \E k \in 1..Len(d) : d[k][1] = key
dict_get(d, key) == d[CHOOSE k \in 1..Len(d) : d[k][1] = key][2]
\* d[key] = value: a new key is appended, an old key keeps its place
dict_set(d, key, value) ==
    IF dict_has(d, key)
    THEN [k \in 1..Len(d) |-> IF d[k][1] = key THEN <<key, value>> ELSE d[k]]
    ELSE Append(d, <<key, value>>)

\* the for loop of build_replacement_map from item i (0-based) on
RECURSIVE build_loop(_, _, _, _)
build_loop(id_lst, start, i, d) ==
    IF i >= Len(id_lst) THEN d
    ELSE build_loop(id_lst, start, i + 1,
                    dict_set(d, id_lst[i + 1], gen_obf_name(i + start)))

build_replacement_map_same_index(id_lst, start) ==
    [k \in 1..Len(id_lst) |-> <<id_lst[k], gen_obf_name(start)>>]
build_replacement_map(id_lst, start) == build_loop(id_lst, start, 0, <<>>)

\* while next_char_pos < len(code) and code[next_char_pos].isspace()
RECURSIVE skip_space(_, _)
skip_space(code, p) ==
    IF p < Len(code) /\ isspace(At(code, p)) THEN skip_space(code, p + 1) ELSE p

\* the type-cast check of repl
is_type_cast_no_paren(code, pos, end_pos) ==
    /\ pos > 0 /\ At(code, pos - 1) = "("
    /\ end_pos < Len(code) /\ At(code, end_pos) = ")"
    /\ LET next_char_pos == skip_space(code, end_pos + 1)
       IN  /\ next_char_pos < Len(code)
           /\ LET next_char == At(code, next_char_pos)
              IN  isalnum(next_char) \/ next_char = "_"
is_type_cast(code, pos, end_pos) ==
    /\ pos > 0 /\ At(code, pos - 1) = "("
    /\ end_pos < Len(code) /\ At(code, end_pos) = ")"
    /\ LET next_char_pos == skip_space(code, end_pos + 1)
       IN  /\ next_char_pos < Len(code)
           /\ LET next_char == At(code, next_char_pos)
              IN  isalnum(next_char) \/ next_char = "_" \/ next_char = "("

\* the two :: checks of repl
is_after_scope(code, pos) ==
    pos >= 2 /\ Slice(code, pos - 2, pos) = <<":", ":">>
is_before_scope(code, end_pos) ==
    end_pos < Len(code) - 1 /\ Slice(code, end_pos, end_pos + 2) = <<":", ":">>

\* repl(m) of replace_identifiers
repl(code, spans, d, m) ==
    LET name    == Slice(code, m[1], m[2])
        pos     == m[1]
        end_pos == m[2]
    IN  IF is_in_spans(pos, spans) THEN name
        ELSE IF is_type_cast(code, pos, end_pos) THEN name
        ELSE IF is_after_scope(code, pos) THEN name
        ELSE IF is_before_scope(code, end_pos) THEN name
        ELSE IF dict_has(d, name) THEN dict_get(d, name)
        ELSE name

replace_identifiers_twice(code, d, keep_set) ==
    LET spans == find_string_spans(code)
        ms    == IDENT_RE(code, 0)
        once  == re_sub(code, ms, [k \in 1..Len(ms) |-> repl(code, spans, d, ms[k])], 0)
        spans2 == find_string_spans(once)
        ms2    == IDENT_RE(once, 0)
    IN  re_sub(once, ms2, [k \in 1..Len(ms2) |-> repl(once, spans2, d, ms2[k])], 0)
replace_identifiers(code, d, keep_set) ==
    LET spans == find_string_spans(code)
        ms    == IDENT_RE(code, 0)
    IN  re_sub(code, ms, [k \in 1..Len(ms) |-> repl(code, spans, d, ms[k])], 0)

\* write_map_file: the file is opened with 'w', one line per item
write_map_file_append(old_content, d) ==
    old_content \o
    [k \in 1..Len(d) |-> JoinChars(d[k][1]) \o " -> " \o JoinChars(d[k][2]) \o "\n"]
write_map_file(old_content, d) ==
    [k \in 1..Len(d) |-> JoinChars(d[k][1]) \o " -> " \o JoinChars(d[k][2]) \o "\n"]

\* keep_set = set(CPP_KEYWORDS) | STD_COMMON, |= load_keep_list(...)
main_keep_set_no_std(keep) == CPP_KEYWORDS \cup keep
main_keep_set(keep) == CPP_KEYWORDS \cup STD_COMMON \cup keep

-----------------------------------------------------------------------------
(* Input domains *)

RECURSIVE Flatten(_)
Flatten(ss) == IF ss = <<>> THEN <<>> ELSE Head(ss) \o Flatten(Tail(ss))

\* the texts made of at most n pieces of P
Texts(P, n) == { Flatten(ss) : ss \in UNION { [1..k -> P] : k \in 0..n } }

MaxStripLen == 6
StripPieces == { <<"/">>, <<"*">>, <<"\n">>, <<"x">> }

-----------------------------------------------------------------------------
(* The core pipeline of utils/obfuscator.py on one file: each step applies  *)
(* one function to the result of the step before.                           *)

RemoveComments ==
    /\ pc = "remove_comments"
    /\ no_comments' = remove_comments(text)
    /\ pc' = "gather_identifiers"
    /\ UNCHANGED <<text, keep_list, start_index, id_list, mapping, obf_text,
                   map_file, in_texts, cursor, outputs, dry_run>>

GatherIdentifiers ==
    /\ pc = "gather_identifiers"
    /\ id_list' = gather_identifiers(no_comments, main_keep_set(keep_list))
    /\ pc' = "build_replacement_map"
    /\ UNCHANGED <<text, keep_list, start_index, no_comments, mapping, obf_text,
                   map_file, in_texts, cursor, outputs, dry_run>>

BuildReplacementMap ==
    /\ pc = "build_replacement_map"
    /\ mapping' = build_replacement_map(id_list, start_index)
    /\ pc' = "replace_identifiers"
    /\ UNCHANGED <<text, keep_list, start_index, no_comments, id_list, obf_text,
                   map_file, in_texts, cursor, outputs, dry_run>>

ReplaceIdentifiers ==
    /\ pc = "replace_identifiers"
    /\ obf_text' = replace_identifiers(no_comments, mapping, main_keep_set(keep_list))
    /\ pc' = "write_map_file"
    /\ UNCHANGED <<text, keep_list, start_index, no_comments, id_list, mapping,
                   map_file, in_texts, cursor, outputs, dry_run>>

WriteMapFile ==
    /\ pc = "write_map_file"
    /\ map_file' = write_map_file(map_file, mapping)
    /\ pc' = "done"
    /\ UNCHANGED <<text, keep_list, start_index, no_comments, id_list, mapping,
                   obf_text, in_texts, cursor, outputs, dry_run>>

NextCore ==
    \/ RemoveComments
    \/ GatherIdentifiers
    \/ BuildReplacementMap
    \/ ReplaceIdentifiers
    \/ WriteMapFile

\* what the variables of the run are while the core pipeline is looked at
NoRun == in_texts = <<>> /\ cursor = 0 /\ outputs = <<>> /\ dry_run = FALSE

\* remove_comments on every text of at most MaxStripLen characters of
\* StripPieces
InitStrip ==
    /\ pc = "remove_comments"
    /\ text \in Texts(StripPieces, MaxStripLen)
    /\ keep_list = {} /\ start_index = 0
    /\ no_comments = <<>> /\ id_list = <<>> /\ mapping = <<>>
    /\ obf_text = <<>> /\ map_file = <<>>
    /\ NoRun

SpecStrip == InitStrip /\ [][RemoveComments]_vars

-----------------------------------------------------------------------------
(* Comment stripping *)

\* the comment characters of a text as a left-to-right scan delimits them: at
\* a // the comment runs up to the next newline, at a /* that is closed it
\* runs through the first */ after it (a /* that is never closed opens
\* nothing here)
RECURSIVE FirstNewline(_, _)
FirstNewline(code, j) ==
    IF j >= Len(code) \/ At(code, j) = "\n" THEN j ELSE FirstNewline(code, j + 1)

RECURSIVE FirstClose(_, _)
FirstClose(code, j) ==
    IF j + 1 >= Len(code) THEN -1
    ELSE IF Slice(code, j, j + 2) = <<"*", "/">> THEN j + 2
    ELSE FirstClose(code, j + 1)

RECURSIVE CommentPositions(_, _)
CommentPositions(code, p) ==
    IF p + 1 >= Len(code) THEN {}
    ELSE IF Slice(code, p, p + 2) = <<"/", "/">>
         THEN LET e == FirstNewline(code, p + 2)
              IN  (p .. e - 1) \cup CommentPositions(code, e)
    ELSE IF Slice(code, p, p + 2) = <<"/", "*">> /\ FirstClose(code, p + 2) >= 0
         THEN LET e == FirstClose(code, p + 2)
              IN  (p .. e - 1) \cup CommentPositions(code, e)
    ELSE CommentPositions(code, p + 1)

Stripped == pc = "gather_identifiers"

\* C9: remove_comments returns a text of the same length in which every
\* character of a comment (as a left-to-right scan delimits comments) is a
\* space and every other character is the input character
C9_OnlyCommentBytesChange ==
    Stripped =>
        /\ Len(no_comments) = Len(text)
        /\ \A p \in 0 .. Len(text) - 1 :
               IF p \in CommentPositions(text, 0)
               THEN At(no_comments, p) = " "
               ELSE At(no_comments, p) = At(text, p)

\* C10: the output of remove_comments has a newline at exactly the positions
\* where the input has one
C10_NewlinesKept ==
    Stripped =>
        /\ Len(no_comments) = Len(text)
        /\ \A p \in 0 .. Len(text) - 1 :
               (At(no_comments, p) = "\n") <=> (At(text, p) = "\n")

-----------------------------------------------------------------------------
(* Name generation *)

MaxCands == 3
MaxStart == 260
NamePool == { <<"a">>, <<"b">>, <<"c">>, <<"x", "1">> }

\* the lists of at most n pairwise different names of pool
UniqueLists(pool, n) ==
    { l \in UNION { [1..k -> pool] : k \in 0..n } :
          \A i, j \in 1..Len(l) : i # j => l[i] # l[j] }

\* build_replacement_map on every list of at most MaxCands unique names of
\* NamePool with every start_index up to MaxStart
InitNames ==
    /\ pc = "build_replacement_map"
    /\ id_list \in UniqueLists(NamePool, MaxCands)
    /\ start_index \in 0..MaxStart
    /\ text = <<>> /\ keep_list = {} /\ no_comments = <<>> /\ mapping = <<>>
    /\ obf_text = <<>> /\ map_file = <<>>
    /\ NoRun

SpecNames == InitNames /\ [][BuildReplacementMap]_vars

Built == pc = "replace_identifiers"

\* C4: the mapping has exactly one entry per candidate and the generated
\* names are pairwise distinct: those of the mapping among themselves, and
\* each of them from the name of every smaller index
C4_Bijection ==
    Built =>
        /\ Len(mapping) = Len(id_list)
        /\ \A k \in 1..Len(id_list) : dict_has(mapping, id_list[k])
        /\ \A j, k \in 1..Len(mapping) : j # k => mapping[j][2] # mapping[k][2]
        /\ \A k \in 1..Len(mapping) : \A i \in 0 .. start_index + k - 2 :
               gen_obf_name(i) # mapping[k][2]

C4_Witness == Built /\ Len(mapping) = MaxCands /\ start_index > 0

\* the number a sequence of binary digits denotes
RECURSIVE BinValue(_)
BinValue(ds) ==
    IF ds = <<>> THEN 0
    ELSE 2 * BinValue(SubSeq(ds, 1, Len(ds) - 1))
             + (IF ds[Len(ds)] = "1" THEN 1 ELSE 0)

\* C7: the k-th candidate (0-based) gets gen_obf_name(k + start_index), and
\* the name of index i is "O" (i even) or "l" (i odd) followed by i + 256 in
\* binary without leading zeros: a letter and at least 9 binary digits, an
\* identifier of length >= 10
C7_NameFormat ==
    Built =>
        \A k \in 1..Len(id_list) :
            LET i      == (k - 1) + start_index
                name   == mapping[k][2]
                digits == Tail(name)
            IN  /\ mapping[k] = <<id_list[k], gen_obf_name(i)>>
                /\ name[1] = (IF i % 2 = 0 THEN "O" ELSE "l")
                /\ \A d \in 1..Len(digits) : digits[d] \in {"0", "1"}
                /\ digits[1] = "1"
                /\ BinValue(digits) = i + 256
                /\ Len(digits) >= 9
                /\ Len(name) >= 10
                /\ IDENT_RE(name, 0) = << <<0, Len(name)>> >>

C7_Witness ==
    /\ Built /\ Len(mapping) >= 2 /\ start_index = 255
    /\ Len(mapping[1][2]) = 10 /\ Len(mapping[2][2]) = 11

-----------------------------------------------------------------------------
(* Inputs of the core pipeline *)

\* string and character literals with escapes, closed or not
MaxLiteralLen == 5
LiteralPieces == { <<"a">>, <<"b">>, <<"\"">>, <<"'">>, <<"\\">> }

\* the mappings replace_identifiers is given directly
LiteralMappings ==
    { build_replacement_map(l, 0) : l \in UniqueLists({<<"a">>, <<"b">>}, 2) }

\* the pipeline on every text of at most MaxLiteralLen characters of
\* LiteralPieces, and replace_identifiers on every such text with every
\* mapping of LiteralMappings
InitLiteral ==
    /\ text \in Texts(LiteralPieces, MaxLiteralLen)
    /\ \/ pc = "remove_comments" /\ no_comments = <<>> /\ mapping = <<>>
       \/ pc = "replace_identifiers" /\ no_comments = text
              /\ mapping \in LiteralMappings
    /\ id_list = <<>>
    /\ keep_list = {} /\ start_index = 0
    /\ obf_text = <<>> /\ map_file = <<>>
    /\ NoRun

SpecLiteral == InitLiteral /\ [][NextCore]_vars

\* identifiers of every class: candidates, a keyword, a protected name, a
\* keep-list entry, the reserved names, and an identifier inside a literal
MaxIdentPieces == 4
IdentPieces == { <<"a">>, <<"a", " ">>, <<"k", " ">>, <<"i", "n", "t", " ">>,
                 <<"s", "t", "d", " ">>, <<"m", "a", "i", "n", " ">>,
                 <<"_", "_", "x", " ">>, <<"\"", "a", "\"", " ">> }

ExampleText == <<"i", "n", "t", " ", "m", "y", "V", "a", "l", " ", "=", " ", "5", ";", " ",
                   "/", "/", " ", "m", "y", "V", "a", "l", " ", "i", "n", "i", "t">>

InitIdent ==
    /\ pc = "remove_comments"
    /\ text \in Texts(IdentPieces, MaxIdentPieces) \cup {ExampleText}
    /\ keep_list \in SUBSET {"k"}
    /\ start_index = 0
    /\ id_list = <<>>
    /\ no_comments = <<>> /\ mapping = <<>> /\ obf_text = <<>> /\ map_file = <<>>
    /\ NoRun

SpecIdent == InitIdent /\ [][NextCore]_vars

\* names that look like generated names, in casts and qualified names
MaxGuardPieces == 4
GuardPieces == { <<"x">>, <<"O", "1", "0", "0", "0", "0", "0", "0", "0", "0">>,
                 <<":", ":">>, <<"(">>, <<")">>, <<" ">>, <<"(", "x", ")">> }

InitGuard ==
    /\ pc = "remove_comments"
    /\ text \in Texts(GuardPieces, MaxGuardPieces)
    /\ keep_list = {} /\ start_index = 0
    /\ id_list = <<>>
    /\ no_comments = <<>> /\ mapping = <<>> /\ obf_text = <<>> /\ map_file = <<>>
    /\ NoRun

SpecGuard == InitGuard /\ [][NextCore]_vars

\* the steps the pipeline has behind it
Gathered == pc \in {"build_replacement_map", "replace_identifiers",
                    "write_map_file", "done"}
Mapped   == pc \in {"replace_identifiers", "write_map_file", "done"}
Replaced == pc \in {"write_map_file", "done"}

-----------------------------------------------------------------------------
(* Tokens and literals of a text, and the places of the output they go to *)

Tokens(code) == IDENT_RE(code, 0)
Literals(code) == STRING_OR_CHAR(code, 0)
NameAt(code, m) == Slice(code, m[1], m[2])
TokenNames(code) ==
    LET ms == Tokens(code) IN [k \in 1..Len(ms) |-> NameAt(code, ms[k])]

\* position p lies in a literal: start <= p < end for one of the literals
InLiteral(code, p) ==
    \E k \in 1..Len(Literals(code)) :
        Literals(code)[k][1] <= p /\ p < Literals(code)[k][2]

\* how far the tokens that end at or before p have moved the text behind them
RECURSIVE Shift(_, _, _)
Shift(ins, outs, p) ==
    IF ins = <<>> \/ outs = <<>> \/ ins[1][2] > p THEN 0
    ELSE (outs[1][2] - outs[1][1]) - (ins[1][2] - ins[1][1])
             + Shift(Tail(ins), Tail(outs), p)

\* the position in text out of position p of text in
OutPos(in, out, p) == p + Shift(Tokens(in), Tokens(out), p)

-----------------------------------------------------------------------------
(* Literals *)

\* C1: gather_identifiers adds no name on account of a token that starts
\* inside a literal (a name it returns has a token outside the literals), and
\* replace_identifiers emits every token that starts inside a literal
\* unchanged, so that every literal of the text stands byte for byte in the
\* output, at the place the renamings before it have moved it to
C1_LiteralPreservation ==
    LET ins   == Tokens(no_comments)
        names == TokenNames(no_comments)
        lits  == Literals(no_comments)
        inlit == [t \in 1..Len(ins) |->
                     \E l \in 1..Len(lits) : lits[l][1] <= ins[t][1] /\ ins[t][1] < lits[l][2]]
    IN  /\ pc = "build_replacement_map" =>
               \A k \in 1..Len(id_list) :
                   \E t \in 1..Len(ins) : names[t] = id_list[k] /\ ~inlit[t]
        /\ Replaced =>
               LET outs     == Tokens(obf_text)
                   outnames == TokenNames(obf_text)
               IN  /\ Len(outs) = Len(ins)
                   /\ \A t \in 1..Len(ins) : inlit[t] => outnames[t] = names[t]
                   /\ \A l \in 1..Len(lits) :
                          Slice(obf_text, lits[l][1] + Shift(ins, outs, lits[l][1]),
                                          lits[l][2] + Shift(ins, outs, lits[l][2]))
                              = Slice(no_comments, lits[l][1], lits[l][2])

\* a name is a key of the mapping, is renamed at a code position and stands
\* in a literal of the same text
C1_Witness ==
    LET ins   == Tokens(no_comments)
        names == TokenNames(no_comments)
    IN  /\ Replaced
        /\ \E t, u \in 1..Len(ins) :
               /\ InLiteral(no_comments, ins[t][1])
               /\ dict_has(mapping, names[t])
               /\ ~InLiteral(no_comments, ins[u][1])
               /\ names[u] = names[t]
               /\ TokenNames(obf_text)[u] # names[u]

-----------------------------------------------------------------------------
(* Keywords, protected names, keep-list *)

Kept(name) ==
    LET str == JoinChars(name)
    IN  str \in CPP_KEYWORDS \/ str \in STD_COMMON \/ str \in keep_list

\* C2: a keyword, a protected common-library name or a keep-list entry is
\* never in the candidate list, never a key of the mapping built from it, and
\* every occurrence of it is emitted unchanged by replace_identifiers
C2_KeepPreservation ==
    /\ Gathered => \A k \in 1..Len(id_list) : ~Kept(id_list[k])
    /\ Mapped => \A k \in 1..Len(mapping) : ~Kept(mapping[k][1])
    /\ Replaced =>
           LET names    == TokenNames(no_comments)
               outnames == TokenNames(obf_text)
           IN  /\ Len(outnames) = Len(names)
               /\ \A t \in 1..Len(names) : Kept(names[t]) => outnames[t] = names[t]

\* a keep-list entry, a keyword and a protected name stand next to a
\* candidate that is renamed
C2_Witness ==
    /\ Replaced
    /\ keep_list = {"k"}
    /\ LET names == TokenNames(no_comments)
       IN  /\ {<<"k">>, <<"i", "n", "t">>, <<"s", "t", "d">>}
                  \subseteq {names[t] : t \in 1..Len(names)}
           /\ \E t \in 1..Len(names) : TokenNames(obf_text)[t] # names[t]

-----------------------------------------------------------------------------
(* First-seen order *)

\* the tokens of the text that the classifier accepts
AcceptedTokens(code) ==
    LET ms    == Tokens(code)
        names == TokenNames(code)
        lits  == Literals(code)
    IN  { t \in 1..Len(ms) :
            /\ ~\E l \in 1..Len(lits) : lits[l][1] <= ms[t][1] /\ ms[t][1] < lits[l][2]
            /\ ~Kept(names[t])
            /\ names[t] # <<"m", "a", "i", "n">>
            /\ ~(Len(names[t]) >= 2 /\ names[t][1] = "_" /\ names[t][2] = "_") }

Min(S) == CHOOSE m \in S : \A x \in S : m <= x

\* C6: gather_identifiers returns every accepted identifier exactly once,
\* ordered by the position of its first accepted occurrence
C6_FirstSeenOrder ==
    pc = "build_replacement_map" =>
        LET ins   == Tokens(no_comments)
            names == TokenNames(no_comments)
            acc   == AcceptedTokens(no_comments)
            first == [k \in 1..Len(id_list) |->
                         Min({ins[t][1] : t \in {u \in acc : names[u] = id_list[k]}})]
        IN  /\ \A i, j \in 1..Len(id_list) : i # j => id_list[i] # id_list[j]
            /\ {id_list[k] : k \in 1..Len(id_list)} = {names[t] : t \in acc}
            /\ \A i, j \in 1..Len(id_list) : i < j => first[i] < first[j]

\* two candidates, one of them accepted twice, one of them first met inside
\* a literal
C6_Witness ==
    LET ins   == Tokens(no_comments)
        names == TokenNames(no_comments)
        acc   == AcceptedTokens(no_comments)
    IN  /\ pc = "build_replacement_map"
        /\ Len(id_list) >= 2
        /\ \E k \in 1..Len(id_list) :
               Cardinality({t \in acc : names[t] = id_list[k]}) >= 2
        /\ \E k \in 1..Len(id_list) : \E t \in 1..Len(ins) : \E u \in acc :
               /\ names[t] = id_list[k] /\ names[u] = id_list[k]
               /\ InLiteral(no_comments, ins[t][1])
               /\ \A v \in acc : names[v] = id_list[k] => t < v

-----------------------------------------------------------------------------
(* The worked example: int myVal = 5; // myVal init *)

ExampleStripped == SubSeq(ExampleText, 1, 15) \o Spaces(13)
myVal == <<"m", "y", "V", "a", "l">>

IsExample == text = ExampleText /\ keep_list = {}

\* the steps of the example up to the candidate list
ExampleCandidates ==
    /\ pc # "remove_comments" => no_comments = ExampleStripped
    /\ Gathered => id_list = <<myVal>>

\* C8: with the default keep-set the comment of the example is replaced by
\* spaces of equal length, the candidate list is ["myVal"], the mapping is
\* {"myVal": "O100000000"} (O and 256 in binary) and the output is
\* int O100000000 = 5; followed by the spaces that replaced the comment
C8_WorkedExample ==
    IsExample =>
        /\ ExampleCandidates
        /\ Mapped => /\ Len(mapping) = 1 /\ mapping[1][1] = myVal
                     /\ JoinChars(mapping[1][2]) = "O100000000"
        /\ Replaced => JoinChars(obf_text) = "int O100000000 = 5;              "

\* C8 as stated: the mapping is {"myVal": "O100000001"} and the output is
\* int O100000001 = 5; followed by the spaces that replaced the comment
C8_AsStated ==
    IsExample =>
        /\ ExampleCandidates
        /\ Mapped => /\ Len(mapping) = 1 /\ mapping[1][1] = myVal
                     /\ JoinChars(mapping[1][2]) = "O100000001"
        /\ Replaced => JoinChars(obf_text) = "int O100000001 = 5;              "

C8_Witness == IsExample /\ pc = "done" /\ Len(obf_text) = 33

-----------------------------------------------------------------------------
(* Reversal *)

\* the reverse substitution: every identifier token of out that equals a
\* generated name of d is replaced by the original it is mapped from
ReverseSubstitution(out, d) ==
    LET ms   == Tokens(out)
        orig(name) == IF \E j \in 1..Len(d) : d[j][2] = name
                      THEN d[CHOOSE j \in 1..Len(d) : d[j][2] = name][1]
                      ELSE name
    IN  re_sub(out, ms, [k \in 1..Len(ms) |-> orig(NameAt(out, ms[k]))], 0)

\* C5: the reverse substitution with the mapping built from the candidate
\* list of the text gives every occurrence of a candidate outside the
\* literals of the comment-stripped text its original spelling again
C5_RoundTrip ==
    Replaced =>
        LET ins   == Tokens(no_comments)
            names == TokenNames(no_comments)
            back  == TokenNames(ReverseSubstitution(obf_text, mapping))
        IN  /\ Len(back) = Len(names)
            /\ \A t \in 1..Len(names) :
                   (dict_has(mapping, names[t]) /\ ~InLiteral(no_comments, ins[t][1]))
                       => back[t] = names[t]

-----------------------------------------------------------------------------
(* obfuscate_cpp.py: its own copies of the functions, and the run *)

\* the body of the for loop of obfuscate_cpp.gather_identifiers
RECURSIVE cli_gather_loop(_, _, _, _, _)
cli_gather_loop(code, spans, keep_set, ms, identifiers) ==
    IF ms = <<>> THEN identifiers
    ELSE LET name  == Slice(code, ms[1][1], ms[1][2])
             start == ms[1][1]
             skip  == \/ is_in_spans(start, spans)
                      \/ JoinChars(name) \in CPP_KEYWORDS \/ isdigit(name)
                      \/ JoinChars(name) \in keep_set
         IN  cli_gather_loop(code, spans, keep_set, Tail(ms),
                             IF skip THEN identifiers
                             ELSE ordered_add(identifiers, name))

cli_gather_identifiers(code, keep_set) ==
    cli_gather_loop(code, find_string_spans(code), keep_set, IDENT_RE(code, 0), <<>>)

\* repl(m) of obfuscate_cpp.replace_identifiers
cli_repl(code, spans, d, m) ==
    LET name == Slice(code, m[1], m[2])
        pos  == m[1]
    IN  IF is_in_spans(pos, spans) THEN name
        ELSE IF dict_has(d, name) THEN dict_get(d, name)
        ELSE name

cli_replace_identifiers(code, d, keep_set) ==
    LET spans == find_string_spans(code)
        ms    == IDENT_RE(code, 0)
    IN  re_sub(code, ms, [k \in 1..Len(ms) |-> cli_repl(code, spans, d, ms[k])], 0)

\* obfuscate_cpp.process_file: the text written to out_path
cli_process_file(txt, d, keep_set) ==
    cli_replace_identifiers(remove_comments(txt), d, keep_set)

\* for name in ids: if name not in all_identifiers: all_identifiers[name] = None
merge_identifiers_reset(all_identifiers, ids) == ids
RECURSIVE merge_identifiers(_, _)
merge_identifiers(all_identifiers, ids) ==
    IF ids = <<>> THEN all_identifiers
    ELSE merge_identifiers(
             IF \E k \in 1..Len(all_identifiers) : all_identifiers[k] = Head(ids)
             THEN all_identifiers ELSE Append(all_identifiers, Head(ids)),
             Tail(ids))

MaxFiles == 2
MaxRunPieces == 1
RunPieces == { <<"a", " ">>, <<"b", ":", ":", "a", " ">>, <<"m", "a", "i", "n", " ">>,
               <<"_", "_", "x", " ">> }

\* the mapping file an earlier run has left at the path of --map
PreviousMap == << "old -> O100000000\n" >>

\* a run on at most MaxFiles files of at most MaxRunPieces pieces each, with
\* or without a keep-list entry, with or without --dry-run
InitRun ==
    /\ pc = "main_gather"
    /\ in_texts \in UNION { [1..n -> Texts(RunPieces, MaxRunPieces)] : n \in 0..MaxFiles }
    /\ keep_list \in SUBSET {"b"}
    /\ dry_run \in BOOLEAN
    /\ cursor = 0 /\ outputs = <<>>
    /\ id_list = <<>> /\ mapping = <<>> /\ map_file = PreviousMap
    /\ start_index = 0
    /\ text = <<>> /\ no_comments = <<>> /\ obf_text = <<>>

\* if not in_paths: sys.exit(1)
MainNoInput ==
    /\ pc = "main_gather" /\ in_texts = <<>>
    /\ pc' = "exit_1"
    /\ UNCHANGED <<text, keep_list, start_index, no_comments, id_list, mapping,
                   obf_text, map_file, in_texts, cursor, outputs, dry_run>>

\* one round of the loop that reads the files and gathers the identifiers
MainGather ==
    /\ pc = "main_gather" /\ cursor < Len(in_texts)
    /\ id_list' = merge_identifiers(id_list,
                      cli_gather_identifiers(remove_comments(in_texts[cursor + 1]),
                                             main_keep_set(keep_list)))
    /\ cursor' = cursor + 1
    /\ UNCHANGED <<pc, text, keep_list, start_index, no_comments, mapping,
                   obf_text, map_file, in_texts, outputs, dry_run>>

\* path.read_text raises (the file cannot be read or decoded): the run ends
MainReadFails ==
    /\ pc = "main_gather" /\ cursor < Len(in_texts)
    /\ pc' = "failed"
    /\ UNCHANGED <<text, keep_list, start_index, no_comments, id_list, mapping,
                   obf_text, map_file, in_texts, cursor, outputs, dry_run>>

\* if args.dry_run: the candidates are printed, sys.exit(0)
MainDryRun ==
    /\ pc = "main_gather" /\ in_texts # <<>> /\ cursor = Len(in_texts)
    /\ dry_run
    /\ pc' = "exit_0"
    /\ UNCHANGED <<text, keep_list, start_index, no_comments, id_list, mapping,
                   obf_text, map_file, in_texts, cursor, outputs, dry_run>>

\* mapping = build_replacement_map(id_list, start_index=0)
MainBuild ==
    /\ pc = "main_gather" /\ in_texts # <<>> /\ cursor = Len(in_texts)
    /\ ~dry_run
    /\ mapping' = build_replacement_map(id_list, 0)
    /\ cursor' = 0
    /\ pc' = "main_process"
    /\ UNCHANGED <<text, keep_list, start_index, no_comments, id_list,
                   obf_text, map_file, in_texts, outputs, dry_run>>

\* one round of the loop that processes the files
MainProcessFile ==
    /\ pc = "main_process" /\ cursor < Len(in_texts)
    /\ outputs' = Append(outputs, cli_process_file(in_texts[cursor + 1], mapping,
                                                   main_keep_set(keep_list)))
    /\ cursor' = cursor + 1
    /\ UNCHANGED <<pc, text, keep_list, start_index, no_comments, id_list, mapping,
                   obf_text, map_file, in_texts, dry_run>>

\* process_file raises (reading or writing fails): the run ends
MainProcessFails ==
    /\ pc = "main_process" /\ cursor < Len(in_texts)
    /\ pc' = "failed"
    /\ UNCHANGED <<text, keep_list, start_index, no_comments, id_list, mapping,
                   obf_text, map_file, in_texts, cursor, outputs, dry_run>>

\* write_map_file(Path(args.map), mapping)
MainWriteMap_early ==
    /\ pc = "main_process"
    /\ map_file' = write_map_file(map_file, mapping)
    /\ pc' = "done"
    /\ UNCHANGED <<text, keep_list, start_index, no_comments, id_list, mapping,
                   obf_text, in_texts, cursor, outputs, dry_run>>
MainWriteMap ==
    /\ pc = "main_process" /\ cursor = Len(in_texts)
    /\ map_file' = write_map_file(map_file, mapping)
    /\ pc' = "done"
    /\ UNCHANGED <<text, keep_list, start_index, no_comments, id_list, mapping,
                   obf_text, in_texts, cursor, outputs, dry_run>>

NextRun ==
    \/ MainNoInput
    \/ MainGather
    \/ MainReadFails
    \/ MainDryRun
    \/ MainBuild
    \/ MainProcessFile
    \/ MainProcessFails
    \/ MainWriteMap

SpecRun == InitRun /\ [][NextRun]_vars

\* the default specification is the run of the tool
Init == InitRun
Next == NextRun
Spec == SpecRun

-----------------------------------------------------------------------------
(* Reserved names *)

Reserved(name) ==
    name = <<"m", "a", "i", "n">> \/ (Len(name) >= 2 /\ name[1] = "_" /\ name[2] = "_")

\* C3: in a run, an identifier spelled main or beginning with a double
\* underscore is never in the candidate list, never a key of the mapping and
\* unchanged at every occurrence in every output text
C3_ReservedPreservation ==
    /\ \A k \in 1..Len(id_list) : ~Reserved(id_list[k])
    /\ \A k \in 1..Len(mapping) : ~Reserved(mapping[k][1])
    /\ \A f \in 1..Len(outputs) :
           LET names    == TokenNames(remove_comments(in_texts[f]))
               outnames == TokenNames(outputs[f])
           IN  /\ Len(outnames) = Len(names)
               /\ \A t \in 1..Len(names) : Reserved(names[t]) => outnames[t] = names[t]

-----------------------------------------------------------------------------
(* Unterminated block comment *)

\* the start of the /* that a left-to-right scan finds open at the end of the
\* text (a /* outside every comment with no */ after it), -1 if there is none
RECURSIVE UnterminatedStart(_, _)
UnterminatedStart(code, p) ==
    IF p + 1 >= Len(code) THEN -1
    ELSE IF Slice(code, p, p + 2) = <<"/", "/">>
         THEN UnterminatedStart(code, FirstNewline(code, p + 2))
    ELSE IF Slice(code, p, p + 2) = <<"/", "*">>
         THEN IF FirstClose(code, p + 2) >= 0
              THEN UnterminatedStart(code, FirstClose(code, p + 2))
              ELSE p
    ELSE UnterminatedStart(code, p + 1)

\* C11: when the text has a /* with no later */, remove_comments replaces
\* every character from that /* to the end of the text with a space
C11_UnterminatedToEnd ==
    Stripped =>
        LET u == UnterminatedStart(text, 0)
        IN  u >= 0 => /\ Len(no_comments) = Len(text)
                      /\ \A q \in u .. Len(text) - 1 : At(no_comments, q) = " "

-----------------------------------------------------------------------------
(* Raw texts: literals, comment openers and directives together *)

\* [ \t]* from position j
RECURSIVE BlankEnd(_, _)
BlankEnd(code, j) ==
    IF j < Len(code) /\ At(code, j) \in {" ", "\t"} THEN BlankEnd(code, j + 1) ELSE j

\* PREPROCESSOR = ^[ \t]*#[^\n]* (MULTILINE), p a line start
RECURSIVE PREPROCESSOR(_, _)
PREPROCESSOR(code, p) ==
    IF p >= Len(code) THEN <<>>
    ELSE LET h == BlankEnd(code, p)
         IN  IF h < Len(code) /\ At(code, h) = "#"
             THEN LET e == LineEnd(code, h + 1)
                  IN  <<<<p, e>>>> \o PREPROCESSOR(code, e + 1)
             ELSE PREPROCESSOR(code, LineEnd(code, p) + 1)

MaxRawLen == 4
RawPieces == { <<"\"">>, <<"/">>, <<"*">>, <<"\n">>, <<"#">>, <<"a">> }

InitRaw ==
    /\ pc = "remove_comments"
    /\ text \in Texts(RawPieces, MaxRawLen)
    /\ keep_list = {} /\ start_index = 0
    /\ no_comments = <<>> /\ id_list = <<>> /\ mapping = <<>>
    /\ obf_text = <<>> /\ map_file = <<>>
    /\ NoRun

SpecRaw == InitRaw /\ [][NextCore]_vars

\* the literals of a raw text as a left-to-right scan delimits them: a quote
\* inside a comment opens no literal, a comment opener inside a literal opens
\* no comment
RECURSIVE RawLiterals(_, _)
RawLiterals(code, p) ==
    IF p >= Len(code) THEN <<>>
    ELSE IF p + 1 < Len(code) /\ Slice(code, p, p + 2) = <<"/", "/">>
         THEN RawLiterals(code, FirstNewline(code, p + 2))
    ELSE IF p + 1 < Len(code) /\ Slice(code, p, p + 2) = <<"/", "*">>
         THEN IF FirstClose(code, p + 2) >= 0
              THEN RawLiterals(code, FirstClose(code, p + 2))
              ELSE <<>>
    ELSE IF At(code, p) \in {"\"", "'"}
         THEN LET e == LiteralEnd(code, p + 1, At(code, p))
              IN  IF e >= 0 THEN <<<<p, e>>>> \o RawLiterals(code, e)
                  ELSE RawLiterals(code, p + 1)
    ELSE RawLiterals(code, p + 1)

\* C12: every string or character literal of the raw input stands byte for
\* byte in the output of remove_comments followed by replace_identifiers, at
\* the place the renamings before it have moved it to, also when it holds
\* // or /*
C12_RawLiteralsUntouched ==
    Replaced =>
        LET lits == RawLiterals(text, 0)
            ins  == Tokens(no_comments)
            outs == Tokens(obf_text)
        IN  \A l \in 1..Len(lits) :
                Slice(obf_text, lits[l][1] + Shift(ins, outs, lits[l][1]),
                                lits[l][2] + Shift(ins, outs, lits[l][2]))
                    = Slice(text, lits[l][1], lits[l][2])

\* C13: no identifier on a line whose first non-blank character is # is
\* replaced: every token of such a line is the same in the output
C13_DirectivesUntouched ==
    Replaced =>
        LET pre      == PREPROCESSOR(text, 0)
            ins      == Tokens(no_comments)
            names    == TokenNames(no_comments)
            outnames == TokenNames(obf_text)
        IN  /\ Len(outnames) = Len(names)
            /\ \A t \in 1..Len(ins) :
                   (\E k \in 1..Len(pre) :
                        pre[k][1] <= ins[t][1] /\ ins[t][1] < pre[k][2])
                       => outnames[t] = names[t]

-----------------------------------------------------------------------------
(* The guards of replace_identifiers *)

\* the token at a..b stands between ( and ), and the first character after
\* the ) that is not whitespace exists and is a letter, a digit, _ or (
CastShape(code, a, b) ==
    /\ a > 0 /\ At(code, a - 1) = "("
    /\ b < Len(code) /\ At(code, b) = ")"
    /\ \E q \in b + 1 .. Len(code) - 1 :
           /\ \A r \in b + 1 .. q - 1 : isspace(At(code, r))
           /\ At(code, q) \in WordChar \cup {"("}

\* the two characters before the token, or the two after it, are ::
ScopeShape(code, a, b) ==
    \/ a >= 2 /\ At(code, a - 2) = ":" /\ At(code, a - 1) = ":"
    \/ b + 2 <= Len(code) /\ At(code, b) = ":" /\ At(code, b + 1) = ":"

\* the token at a..b matches none of the guards
Unguarded(code, a, b) ==
    ~InLiteral(code, a) /\ ~CastShape(code, a, b) /\ ~ScopeShape(code, a, b)

\* C14: a token in cast position is emitted unchanged even when it is a key,
\* while a key token that matches no guard is replaced by its generated name
C14_TypeCastGuard ==
    Replaced =>
        LET ins      == Tokens(no_comments)
            names    == TokenNames(no_comments)
            outnames == TokenNames(obf_text)
        IN  /\ Len(outnames) = Len(names)
            /\ \A t \in 1..Len(ins) :
                   /\ CastShape(no_comments, ins[t][1], ins[t][2])
                          => outnames[t] = names[t]
                   /\ (Unguarded(no_comments, ins[t][1], ins[t][2])
                          /\ dict_has(mapping, names[t]))
                          => outnames[t] = dict_get(mapping, names[t])

\* a key stands once in cast position, unchanged in the output, and once at
\* a position no guard matches, replaced in the output
C14_Witness ==
    /\ Replaced
    /\ LET ins      == Tokens(no_comments)
           names    == TokenNames(no_comments)
           outnames == TokenNames(obf_text)
       IN  \E t, u \in 1..Len(ins) :
               /\ names[t] = names[u] /\ dict_has(mapping, names[t])
               /\ CastShape(no_comments, ins[t][1], ins[t][2])
               /\ outnames[t] = names[t]
               /\ Unguarded(no_comments, ins[u][1], ins[u][2])
               /\ outnames[u] # names[u]

\* the tokens next to a :: are the same in text out as in text src
ScopeTokensKept(src, out) ==
    LET ins      == Tokens(src)
        names    == TokenNames(src)
        outnames == TokenNames(out)
    IN  /\ Len(outnames) = Len(names)
        /\ \A t \in 1..Len(ins) :
               ScopeShape(src, ins[t][1], ins[t][2]) => outnames[t] = names[t]

\* C15: replace_identifiers emits a token whose two preceding or two
\* following characters are :: unchanged even when it is a key, at the end of
\* the text too, in the core pipeline and in every output of a run
C15_ScopeGuard ==
    /\ Replaced => ScopeTokensKept(no_comments, obf_text)
    /\ \A f \in 1..Len(outputs) :
           ScopeTokensKept(remove_comments(in_texts[f]), outputs[f])

-----------------------------------------------------------------------------
(* The mapping file *)

\* the line of the mapping file for an entry
MapLine(orig, obf) == JoinChars(orig \o <<" ", "-", ">", " ">> \o obf \o <<"\n">>)

\* C16: the mapping file of a finished run holds exactly one line
\* <original> -> <generated> per candidate, in candidate-list order, and
\* nothing of what the file held before the run
C16_MapFileContent ==
    pc = "done" =>
        /\ Len(map_file) = Len(id_list)
        /\ \A k \in 1..Len(id_list) :
               map_file[k] = MapLine(id_list[k], gen_obf_name(k - 1))

\* a run that found two candidates has written its two lines over the
\* earlier file
C16_Witness ==
    /\ pc = "done" /\ Len(id_list) = 2
    /\ map_file = << MapLine(id_list[1], mapping[1][2]), MapLine(id_list[2], mapping[2][2]) >>
    /\ map_file[1] # PreviousMap[1]

-----------------------------------------------------------------------------
(* The candidate list of a run *)

\* the places <<f, p>> where a name stands as a token outside the literals
\* of file f of the run
RunOccurrences(name) ==
    { o \in UNION { {<<f, m[1]>> : m \in { Tokens(remove_comments(in_texts[f]))[t] :
                        t \in 1..Len(Tokens(remove_comments(in_texts[f]))) }} :
                    f \in 1..Len(in_texts) } :
        LET src == remove_comments(in_texts[o[1]])
        IN  /\ ~InLiteral(src, o[2])
            /\ \E m \in { Tokens(src)[t] : t \in 1..Len(Tokens(src)) } :
                   m[1] = o[2] /\ NameAt(src, m) = name }

\* traversal order: an earlier file, or the same file and an earlier position
Before(o1, o2) == o1[1] < o2[1] \/ (o1[1] = o2[1] /\ o1[2] < o2[2])

FirstOccurrence(name) ==
    CHOOSE o \in RunOccurrences(name) :
        \A o2 \in RunOccurrences(name) : o2 = o \/ Before(o, o2)

\* the names of the run that must be candidates: outside the literals, not
\* kept and not reserved
RunNames ==
    UNION { LET src   == remove_comments(in_texts[f])
                ins   == Tokens(src)
                names == TokenNames(src)
            IN  { names[t] : t \in { u \in 1..Len(ins) :
                      /\ ~InLiteral(src, ins[u][1])
                      /\ ~Kept(names[u]) /\ ~Reserved(names[u]) } } :
            f \in 1..Len(in_texts) }

\* C17: from the moment the run starts to rewrite files, the candidate list
\* holds every candidate of every file once, ordered by first appearance
\* across the files in traversal order, and a token that an output renames
\* carries the generated name of its run-wide index, in every output
C17_RunGlobalOrder ==
    (pc \in {"main_process", "done"} \/ outputs # <<>>) =>
        /\ \A i, j \in 1..Len(id_list) : i # j => id_list[i] # id_list[j]
        /\ RunNames \subseteq { id_list[k] : k \in 1..Len(id_list) }
        /\ \A k \in 1..Len(id_list) : RunOccurrences(id_list[k]) # {}
        /\ \A i, j \in 1..Len(id_list) :
               i < j => Before(FirstOccurrence(id_list[i]), FirstOccurrence(id_list[j]))
        /\ \A f \in 1..Len(outputs) :
               LET names    == TokenNames(remove_comments(in_texts[f]))
                   outnames == TokenNames(outputs[f])
               IN  /\ Len(outnames) = Len(names)
                   /\ \A t \in 1..Len(names) :
                          outnames[t] # names[t] =>
                              \E k \in 1..Len(id_list) :
                                  /\ id_list[k] = names[t]
                                  /\ outnames[t] = gen_obf_name(k - 1)

\* two files written: a candidate of both files carries the same generated
\* name in both outputs, and a candidate met first in the second file comes
\* after it in the list
C17_Witness ==
    /\ pc = "done" /\ Len(outputs) = 2 /\ Len(id_list) = 2
    /\ FirstOccurrence(id_list[1])[1] = 1
    /\ FirstOccurrence(id_list[2])[1] = 2
    /\ \E o \in RunOccurrences(id_list[1]) : o[1] = 2
    /\ \A f \in 1..2 :
           \E t \in 1..Len(TokenNames(outputs[f])) :
               /\ TokenNames(remove_comments(in_texts[f]))[t] = id_list[1]
               /\ TokenNames(outputs[f])[t] = gen_obf_name(0)

-----------------------------------------------------------------------------
(* One forward pass *)

\* the text between token t and token t + 1 (before the first token for
\* t = 0, after the last one for t = Len(ms))
Gap(code, ms, t) ==
    Slice(code, IF t = 0 THEN 0 ELSE ms[t][2],
                IF t = Len(ms) THEN Len(code) ELSE ms[t + 1][1])

\* C18: replace_identifiers decides every token from the input text alone:
\* it emits the mapped value for a key token no guard matches and the token
\* itself otherwise, copies the text between the tokens unchanged, and never
\* looks an emitted name up again
C18_SingleForwardPass ==
    Replaced =>
        LET ins      == Tokens(no_comments)
            names    == TokenNames(no_comments)
            outs     == Tokens(obf_text)
            outnames == TokenNames(obf_text)
        IN  /\ Len(outs) = Len(ins)
            /\ \A t \in 1..Len(ins) :
                   outnames[t] =
                       IF Unguarded(no_comments, ins[t][1], ins[t][2])
                              /\ dict_has(mapping, names[t])
                       THEN dict_get(mapping, names[t])
                       ELSE names[t]
            /\ \A t \in 0..Len(ins) : Gap(obf_text, outs, t) = Gap(no_comments, ins, t)

\* the name emitted for a token is itself a key of the mapping and stands in
\* the output as emitted
C18_Witness ==
    /\ Replaced
    /\ LET ins      == Tokens(no_comments)
           names    == TokenNames(no_comments)
           outnames == TokenNames(obf_text)
       IN  \E t \in 1..Len(ins) :
               /\ Unguarded(no_comments, ins[t][1], ins[t][2])
               /\ dict_has(mapping, names[t])
               /\ outnames[t] = dict_get(mapping, names[t])
               /\ dict_has(mapping, outnames[t])
               /\ dict_get(mapping, outnames[t]) # outnames[t]

-----------------------------------------------------------------------------
(* Candidates in the output *)

\* C20: with the mapping built from the candidates of the same text, no
\* token of the output that is outside literals and matches no guard is
\* spelled like a candidate
C20_NoLeakedCandidate ==
    Replaced =>
        LET outs     == Tokens(obf_text)
            outnames == TokenNames(obf_text)
        IN  \A t \in 1..Len(outs) :
                Unguarded(obf_text, outs[t][1], outs[t][2])
                    => ~dict_has(mapping, outnames[t])

-----------------------------------------------------------------------------
(* The order of the writes of a run *)

\* C19: the mapping file is written only when the output of every input
\* file has been written; a run that has failed has written no mapping file
\* and takes no further step, and an output once written stays as it is
C19_MapWrittenLast ==
    /\ [](/\ map_file # PreviousMap =>
                 pc = "done" /\ Len(outputs) = Len(in_texts)
          /\ pc = "failed" => map_file = PreviousMap)
    /\ [][/\ pc # "failed"
          /\ Len(outputs') >= Len(outputs)
          /\ \A f \in 1..Len(outputs) : outputs'[f] = outputs[f]]_vars

\* a run of two files has failed on the second one: the first output is in
\* place and the mapping file is the one of the earlier run
C19_Witness ==
    /\ pc = "failed"
    /\ Len(in_texts) = 2 /\ Len(outputs) = 1
    /\ outputs[1] # in_texts[1]
    /\ map_file = PreviousMap

-----------------------------------------------------------------------------
(* Merged identifiers *)

\* C21: two identifier tokens outside literals that are spelled differently
\* in the comment-stripped input are spelled differently at the
\* corresponding places of the output
C21_NoMergedIdentifiers ==
    Replaced =>
        LET ins      == Tokens(no_comments)
            names    == TokenNames(no_comments)
            outnames == TokenNames(obf_text)
        IN  /\ Len(outnames) = Len(names)
            /\ \A t, u \in 1..Len(ins) :
                   (/\ ~InLiteral(no_comments, ins[t][1])
                    /\ ~InLiteral(no_comments, ins[u][1])
                    /\ names[t] # names[u])
                       => outnames[t] # outnames[u]

=============================================================================
